---------------------------- MODULE Spec2Model ----------------------------
(***************************************************************************)
(* A model of the recurrent-visual-attention trainer: the retina           *)
(* (modules.py, PatchExtractor), one step of the model (model.py,          *)
(* RecurrentAttention.forward), the glimpse rollout of one training batch  *)
(* (trainer.py, Trainer.train_one_epoch) and the reward / loss assembly    *)
(* that follows it, the autograd graph of a training step, one validation  *)
(* batch (Trainer.validate), and the epoch loop with its checkpoints       *)
(* (Trainer.train, save_checkpoint, load_checkpoint) and the checkpoint    *)
(* Trainer.test loads.                                                     *)
(*                                                                         *)
(* Tensors are modelled row by row: the retina and the rollout follow one   *)
(* image of the batch.  The one operation of the rollout that couples the  *)
(* images of a batch is torch.stack in extract_patch, which raises when    *)
(* the crops of the images differ in shape; for it the retina is given the *)
(* locations of the other images of the batch as well.  The batch size     *)
(* itself matters once more: the baseline of a batch of one image has no   *)
(* dimension (squeeze(), model.py line 43), and stacking the baselines of  *)
(* an episode and transposing them raises (trainer.py lines 281 and 430).  *)
(* The reward and loss assembly, whose means run over the batch, keeps the *)
(* batch dimension.                                                        *)
(* Real numbers are fixed point: a location coordinate c stands for        *)
(* c / LocDen, a reward, baseline or log-probability v for v / Unit.       *)
(***************************************************************************)
EXTENDS Integers, Sequences, FiniteSets, TLC

VARIABLES
    pc,         \* position of the running procedure
    cfg,        \* the configuration (arguments.py), fixed for a run
    x,          \* shape of the input batch: [B, H, W]
    t,          \* number of model.forward calls made in this episode
    h_t,        \* hidden state: the glimpse locations it has absorbed
    l_t,        \* the location handed to the next retina call
    l_raw,      \* the policy head's sample before clamping
    masks,      \* the running visited mask of the episode (NoMask = None)
    masks_arg,  \* the tensor object last passed as `masks`, after `masks += mask`
    ret,        \* what the last retina call returned
    calls,      \* the `last` flag of every model.forward call of the episode
    buf,        \* the trajectory buffers
    err,        \* the exception that ended the episode ("" = none)
    inp,        \* stacked trajectories handed to the reward / loss assembly
    asm,        \* what the assembly computed
    grad,       \* a backward pass: the loss and the graph nodes it has reached
    val,        \* one validation batch: its rollouts and what validate computed
    run,        \* the trainer across epochs: train(), checkpoints, optimizer log
    batch_idx   \* the index of the batch the rollout is at in its epoch

vars == <<pc, cfg, x, t, h_t, l_t, l_raw, masks, masks_arg, ret, calls, buf,
          err, inp, asm, grad, val, run, batch_idx>>

-----------------------------------------------------------------------------
(* Bounds of the model *)

\* glimpses per episode range over 1..MaxGlimpses
MaxGlimpses == 3
\* images per batch in the loss assembly and in validate range over
\* 1..MaxBatch
MaxBatch == 2
\* len(self.train_loader) ranges over 1..MaxTrainBatches
MaxTrainBatches == 2

\* the grid of location coordinates: c stands for c / LocDen, so the grid
\* holds -1, 0 and 1
Coords == (-1)..1
LocDen == (Cardinality(Coords) - 1) \div 2
\* what the policy head can sample before clamping: the grid and one step
\* beyond it on either side
RawCoords == (-LocDen - 1)..(LocDen + 1)
\* side lengths of the (square) input image
ImgSizes == {2, 3}
\* images per batch in the retina and the rollout: one, and more than one.
\* What an image of a larger batch goes through depends on the other images
\* only through whether one of them is cropped to another shape, so a batch
\* of two stands for the larger ones
BatchSizes == {1, 2}
\* base patch sizes g, odd and even
PatchSizeDom == {1, 2, 3}
\* patch counts k
NumPatchesDom == {1, 2}
\* glimpse scales s as fractions <<numerator, denominator>>: 1, 2 and 1.5
ScaleDom == {<<1, 1>>, <<2, 1>>, <<3, 2>>}

(* Program constants *)

\* self.num_channels
num_channels == 1
\* the positional arguments model.forward passes to self.rnn
RnnCallArgs == 2
\* the parameters of CoreNetwork.forward after self
CoreNetworkParams == 2
\* the parameters of CoreNetworkLSTM.forward after self
CoreNetworkLSTMParams == 3

-----------------------------------------------------------------------------
(* Helpers *)

Min(a, b) == IF a < b THEN a ELSE b
Max(a, b) == IF a > b THEN a ELSE b

RECURSIVE SumSeq(_)
SumSeq(s) == IF s = <<>> THEN 0 ELSE Head(s) + SumSeq(Tail(s))

\* torch.clamp(v, lo, hi)
Clamp(v, lo, hi) == IF v < lo THEN lo ELSE IF v > hi THEN hi ELSE v

\* None, for the running mask
NoMask == <<>>

\* locations (x, y) with both coordinates in [-1, 1]
Locs == Coords \X Coords

-----
(* Idle values of the variables a specification does not use *)

NoRet == [ok |-> TRUE, error |-> "none"]
EmptyBuf == [ locs |-> <<>>, log_pi |-> <<>>, baselines |-> <<>>,
              class_probs |-> <<>>, rc_images |-> <<>>, muList |-> <<>>,
              logvarList |-> <<>>, masks_glimpse |-> <<>> ]
NoInp == [T |-> 0]
NoAsm == [done |-> FALSE]
NoGrad == [loss |-> "none"]
NoVal == [done |-> FALSE]
NoRun == [epoch |-> -1]

\* the default preset of arguments.py, with a small image and patch
DefaultCfg == [ patch_size |-> 2, num_patches |-> 1, glimpse_scale |-> <<1, 1>>,
                num_glimpses |-> 1, core_net_type |-> "Linear",
                training_mode |-> "default", reward |-> "default" ]

-----------------------------------------------------------------------------
(* The retina: modules.py, PatchExtractor *)

\* (0.5 * ((coord + 1.0) * T)).long(): truncation of a non-negative value
Denormalize(coord, T) == ((coord + LocDen) * T) \div (2 * LocDen)

\* number of indices a slice start:end selects on an axis of length n
SliceLen(start, end, n) == Max(0, Min(end, n) - Min(start, n))

\* whether index i of an axis of length n is selected by the slice start:end
InSlice(i, start, end, n) == start <= i /\ i < Min(end, n)

\* the rows and the columns of the patch that line 72 slices out of one image
\* of the batch, of shape H x W and padded by size // 2 on every side:
\* x[i, :, start[i, 1] : end[i, 1], start[i, 0] : end[i, 0]]
CropRows(H, W, l, size) ==
    SliceLen(Denormalize(l[2], H), Denormalize(l[2], H) + size,
             H + 2 * (size \div 2))
CropCols(H, W, l, size) ==
    SliceLen(Denormalize(l[1], H), Denormalize(l[1], H) + size,
             W + 2 * (size \div 2))

\* extract_patch, lines 60-73, for one image of the batch, of shape H x W: the
\* geometry of the crop and the shape (rows, cols) of the patch the slice
\* start:end yields on the image padded by size // 2 on every side
Crop(H, W, l, size) ==
    LET pad == size \div 2
        Hp  == H + 2 * pad
        Wp  == W + 2 * pad
        sx  == Denormalize(l[1], H)
        sy  == Denormalize(l[2], H)
    IN  [ rows |-> CropRows(H, W, l, size),
          cols |-> CropCols(H, W, l, size),
          size |-> size, pad |-> pad,
          sx |-> sx, sy |-> sy, ex |-> sx + size, ey |-> sy + size,
          Hp |-> Hp, Wp |-> Wp ]

\* the locations of the other images of a batch of B images, one for each of
\* them
OtherRows(B) == [1..(B - 1) -> Locs]

\* torch.stack(patch), line 74: the crops of the batch stack into one tensor
\* when they all have the same shape, and stack raises otherwise
StackOk(H, W, l, others, size) ==
    \A j \in DOMAIN others :
        /\ CropRows(H, W, others[j], size) = CropRows(H, W, l, size)
        /\ CropCols(H, W, others[j], size) = CropCols(H, W, l, size)

\* extract_patch(x, l, size) on a batch whose images are cropped at l and at
\* the locations `others`: the crop of the image at l, and whether the crops
\* of the batch stack (ok) or line 74 raises
ExtractPatch(H, W, l, others, size) ==
    LET c == Crop(H, W, l, size)
    IN  [ ok |-> StackOk(H, W, l, others, size),
          rows |-> c.rows, cols |-> c.cols, size |-> c.size, pad |-> c.pad,
          sx |-> c.sx, sy |-> c.sy, ex |-> c.ex, ey |-> c.ey,
          Hp |-> c.Hp, Wp |-> c.Wp ]

\* extract_patch's mask at pixel p (row major, from 1) of the H x W image:
\* zeros of the padded shape, += 1 on the crop, cut back to
\* [pad : pad + H, pad : pad + W]
PatchMaskAt(H, W, l, size, p) ==
    LET pad == size \div 2
        sx  == Denormalize(l[1], H)
        sy  == Denormalize(l[2], H)
    IN  IF /\ InSlice(((p - 1) \div W) + pad, sy, sy + size, H + 2 * pad)
           /\ InSlice(((p - 1) % W) + pad, sx, sx + size, W + 2 * pad)
        THEN 1 ELSE 0

\* the sizes of the k patches: size = g, then size = int(s * size)
RECURSIVE PatchSizes(_, _, _)
PatchSizes(size, k, s) ==
    IF k = 0 THEN <<>>
    ELSE <<size>> \o PatchSizes((s[1] * size) \div s[2], k - 1, s)

\* F.avg_pool2d(phi, kern): defined when 1 <= kern <= both sides
AvgPoolOk(shape, kern) == kern >= 1 /\ shape.rows >= kern /\ shape.cols >= kern
AvgPool2d(shape, kern) ==
    [rows |-> shape.rows \div kern, cols |-> shape.cols \div kern]

\* the shape of phi[i] after the resize loop: patch 1 as cropped, the others
\* pooled with kernel phi[i].shape[-1] // g
PhiShape(H, W, l, g, size, i) ==
    LET c    == Crop(H, W, l, size)
        kern == c.cols \div g
    IN  IF i = 1 \/ ~AvgPoolOk(c, kern)
        THEN [rows |-> c.rows, cols |-> c.cols]
        ELSE AvgPool2d(c, kern)

\* the single-step mask at pixel p: torch.cat(mask, 1).sum(dim=1).clamp(0, 1)
StepMaskAt(H, W, l, g, k, s, p) ==
    LET sizes == PatchSizes(g, k, s)
    IN  Clamp(SumSeq([i \in 1..k |->
                        num_channels * PatchMaskAt(H, W, l, sizes[i], p)]), 0, 1)

\* masks += mask; masks = masks.clamp(0, 1), without the clamp
AccumulateUnclamped(acc) == acc

\* an accumulation that clears a pixel visited a second time
AccumulateToggle(acc) == [p \in DOMAIN acc |-> acc[p] % 2]

\* the mask returned when a running mask was passed: acc is that running mask
\* after `masks += mask`, and the result is acc.clamp(0, 1)
AccumulateMask(acc) == [p \in DOMAIN acc |-> Clamp(acc[p], 0, 1)]

\* lines 33-37: whether every one of the k calls of extract_patch returns,
\* for the batch whose images are cropped at l and at `others`
Stacks(H, W, l, others, g, k, s) ==
    \A i \in 1..k : StackOk(H, W, l, others, PatchSizes(g, k, s)[i])

\* the outcomes of the k calls of extract_patch over the batches the image
\* cropped at l can be part of: the rest of what extract_scaledpatches does
\* to that image is the same for all batches of one outcome
StackOutcomes(B, H, W, l, g, k, s) ==
    {Stacks(H, W, l, others, g, k, s) : others \in OtherRows(B)}

\* the other images of a batch with the outcome `stacks`
BatchWith(B, H, W, l, g, k, s, stacks) ==
    CHOOSE others \in OtherRows(B) : Stacks(H, W, l, others, g, k, s) = stacks

\* one batch for each outcome
StackCases(B, H, W, l, g, k, s) ==
    {BatchWith(B, H, W, l, g, k, s, stacks) :
        stacks \in StackOutcomes(B, H, W, l, g, k, s)}

\* extract_scaledpatches(x, l, masks) on a batch, for the image of the batch
\* that is cropped at l and has the running mask `running`; `others` are the
\* locations of the other images.  The k calls of extract_patch come first,
\* so a batch whose crops do not stack fails there, whatever pooling and
\* concatenation would have done
ExtractScaledPatches(H, W, l, others, running, g, k, s) ==
    LET sizes  == PatchSizes(g, k, s)
        patch  == [i \in 1..k |-> Crop(H, W, l, sizes[i])]
        stackOk == Stacks(H, W, l, others, g, k, s)
        phi    == [i \in 1..k |-> PhiShape(H, W, l, g, sizes[i], i)]
        poolOk == \A i \in 2..k : AvgPoolOk(patch[i], patch[i].cols \div g)
        catOk  == \A i \in 1..k :
                     phi[i].rows = phi[1].rows /\ phi[i].cols = phi[1].cols
        acc    == [p \in 1..(H * W) |->
                     running[p] + StepMaskAt(H, W, l, g, k, s, p)]
    IN  [ ok    |-> stackOk /\ poolOk /\ catOk,
          error |-> IF ~stackOk THEN "stack"
                    ELSE IF ~poolOk THEN "avg_pool2d"
                    ELSE IF ~catOk THEN "cat" ELSE "",
          len   |-> SumSeq([i \in 1..k |-> num_channels * phi[i].rows * phi[i].cols]),
          patch |-> patch,
          phi   |-> phi,
          step  |-> [p \in 1..(H * W) |-> StepMaskAt(H, W, l, g, k, s, p)],
          arg   |-> IF running = NoMask THEN NoMask ELSE acc,
          masks |-> IF running = NoMask
                    THEN [p \in 1..(H * W) |-> StepMaskAt(H, W, l, g, k, s, p)]
                    ELSE AccumulateMask(acc) ]

\* D_in of GlimpseNetwork.fc1
GlimpseDIn(g, k) == k * g * g * num_channels

-----------------------------------------------------------------------------------------------------------------------------------------------------
(* One step of the model: model.py, RecurrentAttention.forward *)

\* the parameters of self.rnn.forward after self, for the core built by
\* RecurrentAttention.__init__
CoreParams(core_net_type) ==
    IF core_net_type = "Linear" THEN CoreNetworkParams ELSE CoreNetworkLSTMParams

\* h_t = self.rnn(g_t, h_t_prev): the call binds when the arguments passed
\* are the parameters the core's forward takes, and raises TypeError otherwise
RnnCallOk(core_net_type) == RnnCallArgs = CoreParams(core_net_type)

\* LocationNetwork.forward without its last statement: the sample is returned
\* as drawn
LocatorUnclamped(raw) == raw

\* LocationNetwork.forward: the location returned for a sample `raw` of
\* Normal(mu, std): torch.clamp(l_t, -1, 1)
LocatorForward(raw) ==
    <<Clamp(raw[1], -LocDen, LocDen), Clamp(raw[2], -LocDen, LocDen)>>

\* GlimpseNetwork.forward up to fc1, given what the retina did: an exception
\* of the retina, or of self.fc1(phi), which takes exactly D_in features
SensorErr(out, g, k) ==
    IF ~out.ok THEN out.error
    ELSE IF out.len # GlimpseDIn(g, k) THEN "fc1"
    ELSE ""

\* RecurrentAttention.forward(x, l_t_prev, h_t_prev, masks=masks): the
\* exception it raises ("" when it returns), given what the retina did
ForwardErr(out, c) ==
    IF SensorErr(out, c.patch_size, c.num_patches) # ""
    THEN SensorErr(out, c.patch_size, c.num_patches)
    ELSE IF ~RnnCallOk(c.core_net_type) THEN "rnn"
    ELSE ""

\* the hidden state self.rnn returns: the sequence of glimpse locations it has
\* absorbed
CoreForward(h_prev, l_prev) == Append(h_prev, l_prev)

\* torch.stack(baselines).transpose(1, 0), trainer.py lines 281 and 430, on
\* the b_t = self.critic(h_t).squeeze() of model.py line 43: for a batch of
\* n >= 2 rows b_t has shape (n) and the stack two dimensions; for one row
\* squeeze() leaves b_t without dimensions, the stack has one dimension and
\* transpose(1, 0) raises IndexError
BaselineStackOk(n) == n >= 2

\* b_t, log_pi, log_probas, decoded_output, mu and logvar are functions of
\* h_t; each is named by the number of glimpses h_t has absorbed
HeadOutput(h) == Len(h)

-----------------------------------------------------------------------------
(* The rollout of one batch: trainer.py, Trainer.reset and the glimpse loop of *)
(* Trainer.train_one_epoch                                                   *)

\* reset(): l_t is drawn by uniform_(-1, 1), from the half-open [-1, 1)
ResetLocs == {l \in Locs : l[1] < LocDen /\ l[2] < LocDen}

\* the number of iterations of `for t in range(self.num_glimpses - 1)`
LoopIterations(num_glimpses) == num_glimpses - 1

\* a batch start that leaves `masks = None` out: the running mask of the
\* previous batch is handed to the first call
ResetKeepsMask ==
    /\ \/ pc = "batch" /\ batch_idx' = batch_idx
       \/ pc = "rolled" /\ batch_idx + 1 < MaxTrainBatches /\ batch_idx' = batch_idx + 1
    /\ pc' = "glimpse"
    /\ t' = 0
    /\ h_t' = <<>>
    /\ l_t' \in ResetLocs
    /\ l_raw' = l_t'
    /\ masks' = masks
    /\ masks_arg' = NoMask
    /\ ret' = NoRet
    /\ calls' = <<>>
    /\ buf' = EmptyBuf
    /\ err' = ""
    /\ UNCHANGED <<cfg, x, inp, asm, grad, val, run>>

\* lines 239-255: a new batch: reset() and the empty trajectory buffers
Reset ==
    /\ \/ pc = "batch" /\ batch_idx' = batch_idx
       \/ pc = "rolled" /\ batch_idx + 1 < MaxTrainBatches /\ batch_idx' = batch_idx + 1
    /\ pc' = "glimpse"
    /\ t' = 0
    /\ h_t' = <<>>
    /\ l_t' \in ResetLocs
    /\ l_raw' = l_t'
    /\ masks' = NoMask
    /\ masks_arg' = NoMask
    /\ ret' = NoRet
    /\ calls' = <<>>
    /\ buf' = EmptyBuf
    /\ err' = ""
    /\ UNCHANGED <<cfg, x, inp, asm, grad, val, run>>

\* the tensor that the n-th call of the batch returns as `masks`: `mask` at
\* line 54 for the first call, the result of clamp at line 52 afterwards;
\* either way a tensor that call has created
TensorOfCall(n) == <<"masks", n>>

\* a snapshot that keeps the tensor itself: it shares the storage of the
\* running mask
CloneShares(tensor) == tensor

\* masks.clone(), lines 268 and 279: a new tensor with storage of its own
Clone(tensor) == <<"clone", tensor[2]>>

\* the tensor appended to masks_glimpse after the s-th call of the batch
SnapshotTensor(s) == Clone(TensorOfCall(s))

\* modules.py line 51, `masks += mask`, in the call that follows n calls of
\* the batch: the tensor it was given, TensorOfCall(n), is overwritten in
\* place with the sum `arg`, and so is every snapshot that is that tensor
InPlaceAdd(snapshots, n, arg) ==
    IF arg = NoMask THEN snapshots
    ELSE [s \in DOMAIN snapshots |->
             IF SnapshotTensor(s) = TensorOfCall(n) THEN arg ELSE snapshots[s]]

\* one call self.model(x, l_t, h_t, last=last, masks=masks) and the appends
\* that follow it, and after the last call the stacking of the buffers
\* (lines 281-287); an exception ends the episode.  The other images of the
\* batch are at locations sampled independently of the followed image's, and
\* are read when the call is made
ForwardAndStore(last, pcNext) ==
    /\ calls' = Append(calls, last)
    /\ \E others \in StackCases(x.B, x.H, x.W, l_t, cfg.patch_size,
                                  cfg.num_patches, cfg.glimpse_scale) :
          ret' = ExtractScaledPatches(x.H, x.W, l_t, others, masks,
                                      cfg.patch_size, cfg.num_patches,
                                      cfg.glimpse_scale)
    /\ masks_arg' = IF ret'.ok THEN ret'.arg ELSE masks_arg
    /\ err' = IF ForwardErr(ret', cfg) # "" THEN ForwardErr(ret', cfg)
              ELSE IF last /\ ~BaselineStackOk(x.B) THEN "transpose"
              ELSE ""
    /\ IF ForwardErr(ret', cfg) # ""
       THEN /\ pc' = "error"
            /\ buf' = IF ret'.ok
                      THEN [buf EXCEPT !.masks_glimpse = InPlaceAdd(@, t, ret'.arg)]
                      ELSE buf
            /\ UNCHANGED <<t, h_t, l_t, l_raw, masks>>
       ELSE /\ pc' = IF err' # "" THEN "error" ELSE pcNext
            /\ t' = t + 1
            /\ h_t' = CoreForward(h_t, l_t)
            /\ l_raw' \in RawCoords \X RawCoords
            /\ l_t' = LocatorForward(l_raw')
            /\ masks' = ret'.masks
            /\ buf' = [ locs          |-> Append(buf.locs, l_t'),
                        baselines     |-> Append(buf.baselines, HeadOutput(h_t')),
                        log_pi        |-> Append(buf.log_pi, HeadOutput(h_t')),
                        class_probs   |-> Append(buf.class_probs, HeadOutput(h_t')),
                        rc_images     |-> Append(buf.rc_images, HeadOutput(h_t')),
                        muList        |-> Append(buf.muList, HeadOutput(h_t')),
                        logvarList    |-> Append(buf.logvarList, HeadOutput(h_t')),
                        masks_glimpse |->
                            Append(InPlaceAdd(buf.masks_glimpse, t, ret'.arg), masks') ]
    /\ UNCHANGED <<cfg, x, inp, asm, grad, val, run, batch_idx>>

\* lines 256-268: an iteration of the glimpse loop
Glimpse ==
    /\ pc = "glimpse"
    /\ t < LoopIterations(cfg.num_glimpses)
    /\ ForwardAndStore(FALSE, "glimpse")

\* lines 269-287: the last iteration, after the loop, and the stacking of the
\* buffers
LastGlimpse ==
    /\ pc = "glimpse"
    /\ t = LoopIterations(cfg.num_glimpses)
    /\ ForwardAndStore(TRUE, "rolled")

-----------------------------------------------------------------------------
(* Reward and loss assembly: trainer.py, Trainer.train_one_epoch, after the   *)
(* rollout.  A matrix is a function [1..B -> [1..T -> value]]: row i is image *)
(* i, column t is timestep t - 1 of the code.                                *)

\* rewards, returns and baselines: v stands for v / Unit
Unit == 2 * 1000
\* class log-probabilities and log_pi: v stands for v / LogUnit
LogUnit == 2 * 5
\* probabilities: v stands for v / ProbUnit
ProbUnit == Unit \div (2 * LogUnit)

\* torch.exp on the log-probability grid, in ProbUnit
Exp(v) == CASE v = -1  -> 90
            [] v = -17 -> 18
            [] v = -24 -> 9
            [] v = -46 -> 1

\* torch.max(v, 1)[1] for one row: the index of the maximal entry
ArgMax(v) ==
    CHOOSE c \in DOMAIN v :
        /\ \A d \in DOMAIN v : v[d] <= v[c]
        /\ \A d \in DOMAIN v : d < c => v[d] < v[c]

\* the correctness signal repeated over the T columns and left in all of them
TerminalRewardEveryStep(predicted, y, T) ==
    [i \in DOMAIN y |->
        [s \in 1..T |-> IF predicted[i] = y[i] THEN Unit ELSE 0]]

\* lines 289-292: R = (predicted == y).float(), repeated over the T columns,
\* then R[:, 0:T-1] = 0
TerminalReward(predicted, y, T) ==
    [i \in DOMAIN y |->
        [s \in 1..T |->
            IF s <= T - 1 THEN 0
            ELSE IF predicted[i] = y[i] THEN Unit ELSE 0]]

\* line 295: torch.sum(-torch.exp(class_probs) * class_probs, dim=2) for one
\* image and timestep, in Unit
Entropy(v) ==
    (Unit \div (ProbUnit * LogUnit)) * SumSeq([c \in DOMAIN v |-> -(Exp(v[c]) * v[c])])

\* the reference 2.3 of line 297, in Unit
EntropyAnchor == (23 * Unit) \div 10

\* lines 295-297: class_probs_reward; the right-hand side of line 296 is
\* evaluated on the entropies before any column is overwritten
ClassProbsReward(class_probs, T) ==
    [i \in DOMAIN class_probs |->
        [s \in 1..T |->
            IF s = 1 THEN EntropyAnchor - Entropy(class_probs[i][1])
            ELSE Entropy(class_probs[i][s - 1]) - Entropy(class_probs[i][s])]]

\* lines 294-298: the reward tensor used for training
Reward(reward_mode, predicted, y, class_probs, T) ==
    LET term == TerminalReward(predicted, y, T)
        cpr  == ClassProbsReward(class_probs, T)
    IN  IF reward_mode = "logprob"
        THEN [i \in DOMAIN y |-> [s \in 1..T |-> term[i][s] + cpr[i][s] \div 2]]
        ELSE term

\* torch.cumsum(R, dim=1) at column s of one row
CumSum(row, s) == SumSeq(SubSeq(row, 1, s))

\* a return that forgets to subtract the rewards already received
DiscountedReturnTotal(R, T) ==
    [i \in DOMAIN R |-> [s \in 1..T |-> SumSeq(R[i])]]

\* lines 301-303: discR = sum(R) repeated, then
\* discR[:, 1:] = discR[:, 1:] - cumsum(R)[:, 0:-1]
DiscountedReturn(R, T) ==
    [i \in DOMAIN R |->
        [s \in 1..T |->
            IF s = 1 THEN SumSeq(R[i]) ELSE SumSeq(R[i]) - CumSum(R[i], s - 1)]]

\* F.mse_loss(a, b) over B x T matrices: the mean of the squared differences,
\* as the fraction num / den (in Unit * Unit)
MseLoss(a, b, B, T) ==
    [ num |-> SumSeq([i \in 1..B |->
                 SumSeq([s \in 1..T |-> (a[i][s] - b[i][s]) * (a[i][s] - b[i][s])])]),
      den |-> B * T ]

\* the advantage taken from the return-to-go instead of the per-step reward
AdvantageAC2FromReturn(R, discR, baselines, T) ==
    [i \in DOMAIN R |->
        [s \in 1..T |->
            IF s <= T - 1 THEN discR[i][s] + baselines[i][s + 1] - baselines[i][s]
            ELSE discR[i][s] - baselines[i][s]]]

\* the advantage with no baseline subtracted
AdvantageNoBaseline(R, discR, baselines, T) == discR

\* lines 315-318, mode AC2: the one-step bootstrapped advantage
AdvantageAC2(R, discR, baselines, T) ==
    [i \in DOMAIN R |->
        [s \in 1..T |->
            IF s <= T - 1 THEN R[i][s] + baselines[i][s + 1] - baselines[i][s]
            ELSE R[i][s] - baselines[i][s]]]

\* line 311, mode default: adjusted_reward = discR - baselines.detach()
AdvantageDefault(R, discR, baselines, T) ==
    [i \in DOMAIN R |-> [s \in 1..T |-> discR[i][s] - baselines[i][s]]]

\* lines 309-318: the advantage of the configured training mode
Advantage(training_mode, R, discR, baselines, T) ==
    IF training_mode = "default" THEN AdvantageDefault(R, discR, baselines, T)
    ELSE AdvantageAC2(R, discR, baselines, T)

\* lines 312-313 and 319-320: torch.mean(torch.sum(-log_pi * adv, dim=1), dim=0)
\* as the fraction num / den (in LogUnit * Unit)
ReinforceLoss(log_pi, adv, B, T) ==
    [ num |-> SumSeq([i \in 1..B |->
                 SumSeq([s \in 1..T |-> -(log_pi[i][s] * adv[i][s])])]),
      den |-> B ]

\* lines 288-320 on the stacked trajectories `in` under configuration c
Assembly(c, in) ==
    LET predicted == [i \in 1..in.B |-> ArgMax(in.class_probs[i][in.T])]
        R         == Reward(c.reward, predicted, in.y, in.class_probs, in.T)
        discR     == DiscountedReturn(R, in.T)
        adv       == Advantage(c.training_mode, R, discR, in.baselines, in.T)
    IN  [ done           |-> TRUE,
          predicted      |-> predicted,
          R              |-> R,
          discR          |-> discR,
          loss_baseline  |-> MseLoss(in.baselines, discR, in.B, in.T),
          advantage      |-> adv,
          loss_reinforce |-> ReinforceLoss(in.log_pi, adv, in.B, in.T) ]

-----------------------------------------------------------------------------
(* Specification SpecRetina: repeated calls of extract_scaledpatches on a    *)
(* batch, each call handed the mask the previous one returned.              *)

RetinaCfgs ==
    { [DefaultCfg EXCEPT !.patch_size = g, !.num_patches = k, !.glimpse_scale = s,
                         !.num_glimpses = 1] :
        g \in PatchSizeDom, k \in NumPatchesDom, s \in ScaleDom }

InitRetina ==
    /\ pc = "retina"
    /\ cfg \in RetinaCfgs
    /\ x \in {[B |-> b, H |-> n, W |-> n] : b \in BatchSizes, n \in ImgSizes}
    /\ batch_idx = 0
    /\ t = 0
    /\ h_t = <<>>
    /\ l_t = <<0, 0>>
    /\ l_raw = l_t
    /\ masks = NoMask
    /\ masks_arg = NoMask
    /\ ret = NoRet
    /\ calls = <<>>
    /\ buf = EmptyBuf
    /\ err = ""
    /\ inp = NoInp
    /\ asm = NoAsm
    /\ grad = NoGrad
    /\ val = NoVal
    /\ run = NoRun

\* phi, masks = self.retina.extract_scaledpatches(x, l, masks) at locations of
\* the caller's choice, l for the followed image; a call that raises leaves
\* the running mask as it was
RetinaCall ==
    /\ pc = "retina"
    /\ \E l \in Locs :
         \E others \in StackCases(x.B, x.H, x.W, l, cfg.patch_size,
                                   cfg.num_patches, cfg.glimpse_scale) :
             /\ ret' = ExtractScaledPatches(x.H, x.W, l, others, masks,
                                            cfg.patch_size, cfg.num_patches,
                                            cfg.glimpse_scale)
             /\ masks' = IF ret'.ok THEN ret'.masks ELSE masks
             /\ masks_arg' = IF ret'.ok THEN ret'.arg ELSE masks_arg
             /\ l_t' = l
             /\ l_raw' = l
    /\ UNCHANGED <<pc, cfg, x, t, h_t, calls, buf, err, inp, asm, grad, val, run,
                   batch_idx>>

NextRetina == RetinaCall

SpecRetina == InitRetina /\ [][NextRetina]_vars

-----------------------------------------------------------------------------
(* Specification Spec: the glimpse rollout of successive training batches.    *)

\* the retina parameters (patch_size, num_patches, glimpse_scale) of the runs
RolloutRetinas ==
    { <<1, 1, <<1, 1>>>>, <<2, 1, <<1, 1>>>>, <<3, 1, <<1, 1>>>>,
      <<2, 2, <<2, 1>>>> }

RolloutCfgs ==
    { [DefaultCfg EXCEPT !.patch_size = r[1], !.num_patches = r[2],
                         !.glimpse_scale = r[3], !.num_glimpses = n,
                         !.core_net_type = core] :
        r \in RolloutRetinas, n \in 1..MaxGlimpses, core \in {"Linear", "LSTM"} }

Init ==
    /\ pc = "batch"
    /\ cfg \in RolloutCfgs
    /\ x \in {[B |-> b, H |-> 3, W |-> 3] : b \in BatchSizes}
    /\ batch_idx = 0
    /\ t = 0
    /\ h_t = <<>>
    /\ l_t = <<0, 0>>
    /\ l_raw = l_t
    /\ masks = NoMask
    /\ masks_arg = NoMask
    /\ ret = NoRet
    /\ calls = <<>>
    /\ buf = EmptyBuf
    /\ err = ""
    /\ inp = NoInp
    /\ asm = NoAsm
    /\ grad = NoGrad
    /\ val = NoVal
    /\ run = NoRun

Next == Reset \/ Glimpse \/ LastGlimpse

Spec == Init /\ [][Next]_vars

-----------------------------------------------------------------------------
(* Specification SpecLoss: the reward and loss assembly applied to the        *)
(* stacked trajectories of one batch.                                        *)

\* self.num_classes
num_classes == 10

\* class log-probabilities with most of the mass on class c: a confident and
\* an unsure prediction
Sharp(c) == [d \in 1..num_classes |-> IF d = c THEN -1 ELSE -46]
Flat(c)  == [d \in 1..num_classes |-> IF d = c THEN -17 ELSE -24]

\* what the heads produce for one image at one timestep: the baseline b_t,
\* log_pi and the class log-probabilities
HeadOuts ==
    { [b |-> Unit \div 10,        p |-> -10, cp |-> Sharp(1)],
      [b |-> (6 * Unit) \div 10,  p |-> -25, cp |-> Flat(2)] }

\* the labels drawn
Labels == {1, 2}

\* lines 281-283: the stacked trajectories of a batch of B images over T
\* glimpses, with labels y and head outputs o[i][s] for image i at timestep
\* s; for a batch of one image line 281 raises and nothing is stacked
Trajectories(B, T, y, o) ==
    IF BaselineStackOk(B)
    THEN [ T |-> T, B |-> B, y |-> y,
           baselines   |-> [i \in 1..B |-> [s \in 1..T |-> o[i][s].b]],
           log_pi      |-> [i \in 1..B |-> [s \in 1..T |-> o[i][s].p]],
           class_probs |-> [i \in 1..B |-> [s \in 1..T |-> o[i][s].cp]] ]
    ELSE [ T |-> T, B |-> B, y |-> y, error |-> "transpose" ]

\* two samples over six glimpses with baselines 0.1, 0.2, ..., 0.6, both
\* classified correctly
ScenarioRamp ==
    [ T |-> 6, B |-> 2, y |-> <<1, 1>>,
      baselines   |-> [i \in 1..2 |-> [s \in 1..6 |-> (s * Unit) \div 10]],
      log_pi      |-> [i \in 1..2 |-> [s \in 1..6 |-> -10]],
      class_probs |-> [i \in 1..2 |-> [s \in 1..6 |-> Sharp(1)]] ]

\* four images over six glimpses, the first and third classified correctly
ScenarioBatch ==
    [ T |-> 6, B |-> 4, y |-> <<1, 1, 2, 2>>,
      baselines   |-> [i \in 1..4 |-> [s \in 1..6 |-> (s * Unit) \div 10]],
      log_pi      |-> [i \in 1..4 |-> [s \in 1..6 |-> -10 - i]],
      class_probs |-> [i \in 1..4 |-> [s \in 1..6 |->
                         IF s = 6 THEN (IF i <= 2 THEN Sharp(i) ELSE Flat(5 - i))
                         ELSE Flat(i)]] ]

\* the training and reward modes of the presets of arguments.py
LossCfgs ==
    { [DefaultCfg EXCEPT !.training_mode = tm, !.reward = rw] :
        tm \in {"default", "AC2"}, rw \in {"default", "logprob"} }

InitLoss ==
    /\ cfg \in LossCfgs
    /\ \/ \E B \in 1..MaxBatch, T \in 1..MaxGlimpses :
            \E y \in [1..B -> Labels], o \in [1..B -> [1..T -> HeadOuts]] :
                inp = Trajectories(B, T, y, o)
       \/ inp \in {ScenarioRamp, ScenarioBatch}
    /\ pc = IF BaselineStackOk(inp.B) THEN "stacked" ELSE "error"
    /\ err = IF BaselineStackOk(inp.B) THEN "" ELSE "transpose"
    /\ asm = NoAsm
    /\ grad = NoGrad
    /\ val = NoVal
    /\ run = NoRun
    /\ x = [B |-> inp.B, H |-> 3, W |-> 3]
    /\ batch_idx = 0
    /\ t = 0
    /\ h_t = <<>>
    /\ l_t = <<0, 0>>
    /\ l_raw = l_t
    /\ masks = NoMask
    /\ masks_arg = NoMask
    /\ ret = NoRet
    /\ calls = <<>>
    /\ buf = EmptyBuf

\* lines 288-320: rewards, returns, advantage and the losses of the batch
Assemble ==
    /\ pc = "stacked"
    /\ pc' = "assembled"
    /\ asm' = Assembly(cfg, inp)
    /\ UNCHANGED <<cfg, x, t, h_t, l_t, l_raw, masks, masks_arg, ret, calls,
                   buf, err, inp, grad, val, run, batch_idx>>

NextLoss == Assemble

SpecLoss == InitLoss /\ [][NextLoss]_vars

-----------------------------------------------------------------------------
(* Claims about the rollout, checked under Spec *)

\* the `last` flags of a complete episode of n glimpses: n - 1 times False,
\* then True
ExpectedCalls(n) == [i \in 1..n |-> i = n]

BufferNames == {"locs", "log_pi", "baselines", "class_probs", "rc_images",
                "muList", "logvarList", "masks_glimpse"}

\* C1: for every num_glimpses >= 1 a training episode invokes the model exactly
\* num_glimpses times, the first num_glimpses - 1 with last=False and the final
\* one with last=True, with no early termination, and at its end every
\* trajectory buffer holds exactly num_glimpses entries.
C1_FixedLengthEpisode ==
    pc \in {"rolled", "error"} =>
        /\ calls = ExpectedCalls(cfg.num_glimpses)
        /\ \A b \in BufferNames : Len(buf[b]) = cfg.num_glimpses

InRange(l) == /\ -LocDen <= l[1] /\ l[1] <= LocDen
              /\ -LocDen <= l[2] /\ l[2] <= LocDen

\* C9: every location handed to the retina during an episode (those the hidden
\* state has absorbed and the one held for the next call) has both coordinates
\* in [-1, 1], and the location held after a step is the clamped sample,
\* whatever was sampled.
C9_LocationsInRange ==
    pc \in {"glimpse", "rolled", "error"} =>
        /\ \A i \in 1..Len(h_t) : InRange(h_t[i])
        /\ InRange(l_t)
        /\ \A c \in 1..2 : IF l_raw[c] > LocDen THEN l_t[c] = LocDen
                           ELSE IF l_raw[c] < -LocDen THEN l_t[c] = -LocDen
                           ELSE l_t[c] = l_raw[c]

\* C9 witness: the policy head sampled outside [-1, 1] on both axes, the
\* episode went on and the clamped location was handed to the next retina call
C9_Witness ==
    /\ pc = "rolled"
    /\ Len(h_t) >= 2
    /\ h_t[Len(h_t)] = <<LocDen, -LocDen>>
    /\ l_raw[1] < -LocDen
    /\ l_raw[2] > LocDen
    /\ l_t = <<-LocDen, LocDen>>

\* C10: with core type Linear and with core type LSTM alike, the episode runs
\* without the recurrent core raising: no episode ends in an exception of the
\* call self.rnn(g_t, h_t_prev).
C10_VariantAgnostic == ~(pc = "error" /\ err = "rnn")

-----------------------------------------------------------------------------
(* Claims about the retina, checked under SpecRetina *)

\* a retina call has returned
Returned == pc = "retina" /\ ret.error = ""
\* a retina call has been made and has returned or raised
Called == pc = "retina" /\ ret.error # "none"

\* C6: every mask returned by extract_scaledpatches has all values in [0, 1],
\* whatever the patch count, the location and the accumulation history.
C6_MaskInUnitInterval ==
    Returned => \A p \in DOMAIN ret.masks : 0 <= ret.masks[p] /\ ret.masks[p] <= 1

\* C6 witness: a call on a running mask that already covered a pixel the new
\* glimpse covers again: the tensor passed in holds 2 there, the mask returned 1
C6_Witness ==
    /\ Returned
    /\ cfg.num_patches = 2
    /\ masks_arg # NoMask
    /\ \E p \in DOMAIN ret.masks : masks_arg[p] = 2 /\ ret.masks[p] = 1
    /\ \E p \in DOMAIN ret.masks : ret.masks[p] = 0

\* C7: for every location in [-1, 1], base patch size, scale and patch count,
\* extract_scaledpatches returns exactly k * g * g * c features per image:
\* every cropped patch of nominal size n is n x n and every pooled patch g x g.
C7_FeatureLength ==
    Called =>
        /\ ret.ok
        /\ ret.len = cfg.num_patches * cfg.patch_size * cfg.patch_size * num_channels
        /\ \A i \in DOMAIN ret.patch :
              /\ ret.patch[i].rows = ret.patch[i].size
              /\ ret.patch[i].cols = ret.patch[i].size
              /\ ret.phi[i].rows = cfg.patch_size
              /\ ret.phi[i].cols = cfg.patch_size

\* C8: the image is padded on all sides by at least half the largest patch
\* size, for every one of the k patches, and the crop window [start, start+size)
\* lies inside the padded image on both axes.
C8_CropInsidePadding ==
    Called =>
        \A i \in DOMAIN ret.patch :
            /\ \A j \in DOMAIN ret.patch : 2 * ret.patch[i].pad >= ret.patch[j].size
            /\ 0 <= ret.patch[i].sx /\ ret.patch[i].ex <= ret.patch[i].Wp
            /\ 0 <= ret.patch[i].sy /\ ret.patch[i].ey <= ret.patch[i].Hp

-----------------------------------------------------------------------------
(* Claims about the reward and loss assembly, checked under SpecLoss *)

Assembled == pc = "assembled"

\* class c holds the strictly largest entry of v
IsStrictMax(v, c) == \A d \in DOMAIN v : d # c => v[d] < v[c]

\* C2: with reward mode default, R is zero in every column but the last, and
\* R[i, T-1] is 1 exactly when the argmax of image i's terminal class
\* log-probabilities is its label, and 0 otherwise.
C2_TerminalReward ==
    (Assembled /\ cfg.reward = "default") =>
        \A i \in 1..inp.B :
            /\ \A s \in 1..(inp.T - 1) : asm.R[i][s] = 0
            /\ asm.R[i][inp.T] \in {0, Unit}
            /\ asm.R[i][inp.T] = Unit <=>
                   IsStrictMax(inp.class_probs[i][inp.T], inp.y[i])

\* C2 witness: four images over six glimpses, the first and third classified
\* correctly: the last column of R is [1, 0, 1, 0]
C2_Witness ==
    /\ Assembled
    /\ cfg.reward = "default"
    /\ inp.B = 4 /\ inp.T = 6
    /\ [i \in 1..4 |-> asm.R[i][6]] = <<Unit, 0, Unit, 0>>
    /\ \A i \in 1..4 : \A s \in 1..5 : asm.R[i][s] = 0

\* C3: for shaped and unshaped rewards alike, discR[:, 0] is the sum of R over
\* the timesteps and discR[:, t] = discR[:, t-1] - R[:, t-1] for every t > 0.
C3_ReturnToGo ==
    Assembled =>
        \A i \in 1..inp.B :
            /\ asm.discR[i][1] = SumSeq(asm.R[i])
            /\ \A s \in 2..inp.T :
                   asm.discR[i][s] = asm.discR[i][s - 1] - asm.R[i][s - 1]

\* C3 witness: a shaped reward with non-zero entries before the terminal step,
\* so that the return changes from step to step
C3_Witness ==
    /\ Assembled
    /\ cfg.reward = "logprob"
    /\ inp.T >= 3
    /\ asm.R[1][1] > 0 /\ asm.R[1][2] < 0
    /\ asm.discR[1][2] < asm.discR[1][1]
    /\ asm.discR[1][3] > asm.discR[1][2]

\* C4: in mode AC2, advantage[t] = R[t] + baseline[t+1] - baseline[t] for
\* every t < T-1 and advantage[T-1] = R[T-1] - baseline[T-1], with the per-step
\* reward R; baselines 0.1 .. 0.6 and rewards 0,0,0,0,0,1 give advantage[4] =
\* 0.1 and advantage[5] = 0.4.
C4_AdvantageAC2 ==
    (Assembled /\ cfg.training_mode = "AC2") =>
        /\ \A i \in 1..inp.B :
              /\ \A s \in 1..(inp.T - 1) :
                     asm.advantage[i][s] =
                         asm.R[i][s] + inp.baselines[i][s + 1] - inp.baselines[i][s]
              /\ asm.advantage[i][inp.T] = asm.R[i][inp.T] - inp.baselines[i][inp.T]
        /\ (inp = ScenarioRamp /\ cfg.reward = "default") =>
              /\ 10 * asm.advantage[1][5] = Unit
              /\ 10 * asm.advantage[1][6] = 4 * Unit

\* C4 witness: the sample with baselines 0.1 .. 0.6, rewarded 1 at the last of
\* its six steps, assembled in mode AC2
C4_Witness ==
    /\ Assembled
    /\ cfg.training_mode = "AC2" /\ cfg.reward = "default"
    /\ inp = ScenarioRamp
    /\ asm.R[1] = <<0, 0, 0, 0, 0, Unit>>
    /\ 10 * asm.advantage[1][5] = Unit
    /\ 10 * asm.advantage[1][6] = 4 * Unit

\* C5: in mode default the baseline loss is the mean squared error between the
\* baselines and the return-to-go, the advantage at every timestep is
\* return_to_go[t] - baseline[t], and the REINFORCE loss is the batch mean of
\* -sum over t of log_pi[t] * advantage[t].
C5_DefaultMode ==
    (Assembled /\ cfg.training_mode = "default") =>
        /\ \A i \in 1..inp.B : \A s \in 1..inp.T :
               asm.advantage[i][s] = asm.discR[i][s] - inp.baselines[i][s]
        /\ asm.loss_baseline.den = inp.B * inp.T
        /\ asm.loss_baseline.num =
               SumSeq([i \in 1..inp.B |-> SumSeq([s \in 1..inp.T |->
                   (inp.baselines[i][s] - asm.discR[i][s])
                       * (inp.baselines[i][s] - asm.discR[i][s])])])
        /\ asm.loss_reinforce.den = inp.B
        /\ asm.loss_reinforce.num =
               SumSeq([i \in 1..inp.B |-> -SumSeq([s \in 1..inp.T |->
                   inp.log_pi[i][s] * (asm.discR[i][s] - inp.baselines[i][s])])])

\* C5 witness: a batch of several images over several steps in mode default
\* whose advantages take both signs and whose losses are not zero
C5_Witness ==
    /\ Assembled
    /\ cfg.training_mode = "default"
    /\ inp.B >= 2 /\ inp.T >= 2
    /\ \E i \in 1..inp.B, s \in 1..inp.T : asm.advantage[i][s] > 0
    /\ \E i \in 1..inp.B, s \in 1..inp.T : asm.advantage[i][s] < 0
    /\ asm.loss_baseline.num > 0
    /\ asm.loss_reinforce.num # 0

-----------------------------------------------------------------------------
(* Gradient paths of one training step.  The autograd graph of a batch: a     *)
(* node is <<name, s>>, the tensor `name` produced by forward call s (s = 0   *)
(* for what reset() returns and for the per-batch tensors), or the           *)
(* parameters of a submodule.  GradInputs(n, c) are the nodes the gradient   *)
(* of n is passed on to by backward().                                       *)

\* the submodules of RecurrentAttention (model.py, lines 22-34)
Modules == {"sensor", "rnn", "locator", "classifier", "critic", "decoder"}

\* the parameters of submodule m
Param(m) == <<m, 0>>

\* a tensor used without .detach(): the gradient passes on to its sources
NoDetach(S) == S

\* tensor.detach(): the result has no gradient path to the sources S
Detach(S) == {}

\* the steps of an episode of c.num_glimpses forward calls
Steps(c) == 1..c.num_glimpses

GradInputs(n, c) ==
    LET k == n[1]
        s == n[2]
        T == c.num_glimpses
        all(name) == {<<name, u>> : u \in Steps(c)}
    IN  CASE \* reset(): leaf tensors
             k \in {"h_t", "l_t"} /\ s = 0 -> {}
             \* GlimpseNetwork.forward: fc1..fc4 on phi (cut from x) and l_t_prev
          [] k = "g_t" -> {Param("sensor"), <<"l_t", s - 1>>}
             \* CoreNetwork.forward: i2h(g_t) + h2h(h_t_prev)
          [] k = "h_t" -> {Param("rnn"), <<"g_t", s>>, <<"h_t", s - 1>>}
             \* LocationNetwork.forward: mu from h_t.detach()
          [] k = "loc_mu" -> {Param("locator")} \cup Detach({<<"h_t", s>>})
             \* l_t = rsample().detach(), then clamp
          [] k = "l_t" -> Detach({<<"loc_mu", s>>})
             \* log_pi = Normal(mu, std).log_prob(l_t), summed
          [] k = "log_pi" -> {<<"loc_mu", s>>, <<"l_t", s>>}
             \* Critic.forward: fc(h_t.detach())
          [] k = "b_t" -> {Param("critic")} \cup Detach({<<"h_t", s>>})
             \* ActionNetwork.forward: log_softmax(fc(h_t))
          [] k = "log_probas" -> {Param("classifier"), <<"h_t", s>>}
             \* Decoder.forward: mu_fc(h_t.detach()), var_fc(h_t.detach())
          [] k \in {"mu", "logvar"} -> {Param("decoder")} \cup Detach({<<"h_t", s>>})
             \* decode(reparameterization(mu, logvar))
          [] k = "decoded_output" -> {Param("decoder"), <<"mu", s>>, <<"logvar", s>>}
             \* class_probs.append(class_prob.detach())
          [] k = "class_probs" -> Detach({<<"log_probas", s>>})
             \* predicted = torch.max(log_probas, 1)[1]
          [] k = "predicted" -> Detach({<<"log_probas", T>>})
             \* class_probs_reward, lines 295-297
          [] k = "class_probs_reward" -> all("class_probs")
             \* R = (predicted.detach() == y), R += 0.5 * class_probs_reward.detach()
          [] k = "R" -> Detach({<<"predicted", 0>>}) \cup
                        (IF c.reward = "logprob"
                         THEN Detach({<<"class_probs_reward", 0>>}) ELSE {})
             \* discR, lines 301-303
          [] k = "discR" -> {<<"R", 0>>}
             \* discR - baselines.detach(), or the AC2 advantage of R and
             \* baselines.detach()
          [] k = "advantage" ->
                (IF c.training_mode = "default" THEN {<<"discR", 0>>}
                                                ELSE {<<"R", 0>>})
                \cup Detach(all("b_t"))
             \* F.nll_loss(log_probas, y) on the last call's log_probas
          [] k = "loss_action" -> {<<"log_probas", T>>}
             \* F.mse_loss(baselines, discR)
          [] k = "loss_baseline" -> all("b_t") \cup {<<"discR", 0>>}
             \* torch.mean(torch.sum(-log_pi * advantage, dim=1))
          [] k = "loss_reinforce" -> all("log_pi") \cup {<<"advantage", 0>>}
             \* decoder.loss_function(rc_images, x, muList, logvarList)[0]
          [] k = "vae_loss" -> all("decoded_output") \cup all("mu") \cup all("logvar")
             \* parameters are leaves
          [] OTHER -> {}

\* the four loss terms of a training step
Losses == {"loss_action", "loss_baseline", "loss_reinforce", "vae_loss"}

\* the modes backward() is run under
GradCfgs ==
    { [DefaultCfg EXCEPT !.num_glimpses = n, !.training_mode = tm, !.reward = rw] :
        n \in 1..MaxGlimpses, tm \in {"default", "AC2"}, rw \in {"default", "logprob"} }

InitGrad ==
    /\ pc = "backward"
    /\ cfg \in GradCfgs
    /\ \E l \in Losses : grad = [loss |-> l, seen |-> {<<l, 0>>}]
    /\ x = [B |-> 2, H |-> 3, W |-> 3]
    /\ batch_idx = 0
    /\ t = 0
    /\ h_t = <<>>
    /\ l_t = <<0, 0>>
    /\ l_raw = l_t
    /\ masks = NoMask
    /\ masks_arg = NoMask
    /\ ret = NoRet
    /\ calls = <<>>
    /\ buf = EmptyBuf
    /\ err = ""
    /\ inp = NoInp
    /\ asm = NoAsm
    /\ val = NoVal
    /\ run = NoRun

\* backward(): the gradient of a reached node is passed on to one of its
\* inputs
Backward ==
    /\ pc = "backward"
    /\ \E n \in grad.seen :
         \E m \in GradInputs(n, cfg) \ grad.seen :
            grad' = [grad EXCEPT !.seen = @ \cup {m}]
    /\ UNCHANGED <<pc, cfg, x, t, h_t, l_t, l_raw, masks, masks_arg, ret, calls,
                   buf, err, inp, asm, val, run, batch_idx>>

NextGrad == Backward

SpecGrad == InitGrad /\ [][NextGrad]_vars

\* the backward pass has nothing left to visit
GradDone == \A n \in grad.seen : GradInputs(n, cfg) \subseteq grad.seen

\* the submodules whose parameters the backward pass has reached
ReachedModules == {m \in Modules : Param(m) \in grad.seen}

\* the submodules each loss term is stated to influence
StatedInfluence(l) ==
    CASE l = "loss_reinforce" -> {"locator"}
      [] l = "loss_baseline"  -> {"critic"}
      [] l = "vae_loss"       -> {"decoder"}
      [] l = "loss_action"    -> {"classifier", "rnn", "sensor"}

\* C11: with every detach cutting the gradient path, the REINFORCE loss
\* reaches only the locator parameters, the baseline MSE only the critic
\* parameters, the reconstruction+KL loss only the decoder parameters, and the
\* classification NLL reaches the classifier, the recurrent core and the
\* glimpse encoder and nothing else: a backward pass never reaches a module
\* outside the stated set, and a finished one has reached exactly that set.
C11_GradientPaths ==
    pc = "backward" =>
        /\ ReachedModules \subseteq StatedInfluence(grad.loss)
        /\ GradDone => ReachedModules = StatedInfluence(grad.loss)

\* a finished backward pass of the baseline MSE over several glimpses, which
\* went through every b_t and stopped at the detached hidden states
C11_Witness ==
    /\ pc = "backward"
    /\ grad.loss = "loss_baseline"
    /\ cfg.num_glimpses >= 2
    /\ GradDone
    /\ \A s \in Steps(cfg) : <<"b_t", s>> \in grad.seen
    /\ Param("critic") \in grad.seen

-----------------------------------------------------------------------------
(* Reward shaping *)

\* log(n), in Unit, for the class count of the program
Ln(n) == CASE n = 10 -> (23026 * Unit) \div 10000

\* the terminal-only correctness reward of image i at column s
Terminal(i, s) ==
    IF s = inp.T /\ asm.predicted[i] = inp.y[i] THEN Unit ELSE 0

\* the predictive entropy of image i at column s
E(i, s) == Entropy(inp.class_probs[i][s])

\* C12: in reward mode "logprob" the training reward is
\* R[t] = terminal[t] + 0.5 * (E[t-1] - E[t]) for every t >= 1 and
\* R[0] = terminal[0] + 0.5 * (log(num_classes) - E[0]), with E the entropy of
\* each step itself.
C12_LogprobShaping ==
    (Assembled /\ cfg.reward = "logprob") =>
        \A i \in 1..inp.B : \A s \in 1..inp.T :
            asm.R[i][s] =
                Terminal(i, s) +
                (IF s = 1 THEN Ln(num_classes) - E(i, 1)
                          ELSE E(i, s - 1) - E(i, s)) \div 2

-----------------------------------------------------------------------------
(* Validation: trainer.py, Trainer.validate, one batch.  The batch of B      *)
(* images is repeated M times and rolled out as M * B rows; row r of a       *)
(* stacked tensor is rollout r.  An averaged tensor is kept as the sum over  *)
(* the M samples: the mean is the sum / M.                                   *)

\* Monte-Carlo samples per image (config.M) range over 1..MaxSamples
MaxSamples == 2

\* x.repeat(self.M, 1, 1, 1): row r of the repeated batch is a copy of image
\* XRepeat(B, M)[r] of the batch
XRepeat(B, M) == [r \in 1..(M * B) |-> ((r - 1) % B) + 1]

\* a reshape that takes the M samples of an image from M adjacent rows
ViewAdjacent(M, rows) ==
    LET B == Len(rows) \div M
    IN  [m \in 1..M |-> [i \in 1..B |-> rows[(i - 1) * M + m]]]

\* rows.view(self.M, -1, rows.shape[-1]) of a contiguous tensor of M * B rows:
\* entry [m][i] is the row at flat offset (m - 1) * B + (i - 1)
View(M, rows) ==
    LET B == Len(rows) \div M
    IN  [m \in 1..M |-> [i \in 1..B |-> rows[(m - 1) * B + i]]]

\* torch.mean(v, dim=0) of a viewed tensor whose rows are vectors over D, as
\* the sum over dim 0
SumDim0(v, M, B, D) ==
    [i \in 1..B |-> [d \in D |-> SumSeq([m \in 1..M |-> v[m][i][d]])]]

\* lines 446-447: R = (predicted == y).float() repeated over the T columns
ValidateReward(predicted, y, T) ==
    [i \in DOMAIN y |->
        [s \in 1..T |-> IF predicted[i] = y[i] THEN Unit ELSE 0]]

\* lines 429-463 on the rollouts v.rows of a batch with labels v.y; on a
\* single rollout (M * B = 1) line 430 raises
ValidateBatch(v) ==
    IF ~BaselineStackOk(v.M * v.B)
    THEN [ done |-> FALSE, error |-> "transpose",
           B |-> v.B, M |-> v.M, T |-> v.T, y |-> v.y, rows |-> v.rows ]
    ELSE
    LET M == v.M
        B == v.B
        T == v.T
        rows == v.rows
        log_probas == SumDim0(View(M, [r \in 1..(M * B) |-> rows[r].cp[T]]),
                              M, B, 1..num_classes)
        baselines  == SumDim0(View(M, [r \in 1..(M * B) |-> rows[r].b]), M, B, 1..T)
        log_pi     == SumDim0(View(M, [r \in 1..(M * B) |-> rows[r].p]), M, B, 1..T)
        predicted  == [i \in 1..B |-> ArgMax(log_probas[i])]
        R          == ValidateReward(predicted, v.y, T)
        adjusted   == [i \in 1..B |-> [s \in 1..T |-> M * R[i][s] - baselines[i][s]]]
        correct    == Cardinality({i \in 1..B : predicted[i] = v.y[i]})
    IN  [ done            |-> TRUE,
          B |-> B, M |-> M, T |-> T, y |-> v.y, rows |-> rows,
          log_probas      |-> log_probas,
          baselines       |-> baselines,
          log_pi          |-> log_pi,
          predicted       |-> predicted,
          R               |-> R,
          loss_action     |-> [num |-> SumSeq([i \in 1..B |-> -log_probas[i][v.y[i]]]),
                               den |-> M * B],
          loss_baseline   |-> [num |-> SumSeq([i \in 1..B |-> SumSeq([s \in 1..T |->
                                          adjusted[i][s] * adjusted[i][s]])]),
                               den |-> M * M * B * T],
          adjusted_reward |-> adjusted,
          loss_reinforce  |-> [num |-> SumSeq([i \in 1..B |-> SumSeq([s \in 1..T |->
                                          -(log_pi[i][s] * adjusted[i][s])])]),
                               den |-> M * M * B],
          acc             |-> [num |-> 100 * correct, den |-> B] ]

\* what the heads produce along rollout r, of kind k: the baselines and log_pi
\* of the T steps and the class log-probabilities, unsure before the last step
Rollout(img, k, T) ==
    [ img |-> img,
      b   |-> [s \in 1..T |-> k.b + s],
      p   |-> [s \in 1..T |-> k.p - s],
      cp  |-> [s \in 1..T |-> IF s = T THEN k.cp ELSE Flat(img)] ]

\* the configurations validate runs under
ValCfgs ==
    { [DefaultCfg EXCEPT !.num_glimpses = n, !.training_mode = tm, !.reward = rw] :
        n \in 1..MaxGlimpses, tm \in {"default", "AC2"}, rw \in {"default", "logprob"} }

InitVal ==
    /\ pc = "validate"
    /\ cfg \in ValCfgs
    /\ \E B \in 1..MaxBatch, M \in 1..MaxSamples :
         \E y \in [1..B -> Labels], k \in [1..(M * B) -> HeadOuts] :
            val = [ done |-> FALSE, B |-> B, M |-> M, T |-> cfg.num_glimpses, y |-> y,
                    rows |-> [r \in 1..(M * B) |->
                                Rollout(XRepeat(B, M)[r], k[r], cfg.num_glimpses)] ]
    /\ x = [B |-> val.M * val.B, H |-> 3, W |-> 3]
    /\ batch_idx = 0
    /\ t = 0
    /\ h_t = <<>>
    /\ l_t = <<0, 0>>
    /\ l_raw = l_t
    /\ masks = NoMask
    /\ masks_arg = NoMask
    /\ ret = NoRet
    /\ calls = <<>>
    /\ buf = EmptyBuf
    /\ err = ""
    /\ inp = NoInp
    /\ asm = NoAsm
    /\ grad = NoGrad
    /\ run = NoRun

\* lines 429-467: the averaging, the reward, the losses and the accuracy of
\* one validation batch
Validate ==
    /\ pc = "validate"
    /\ val' = ValidateBatch(val)
    /\ pc' = IF val'.done THEN "validated" ELSE "error"
    /\ err' = IF val'.done THEN err ELSE val'.error
    /\ UNCHANGED <<cfg, x, t, h_t, l_t, l_raw, masks, masks_arg, ret, calls,
                   buf, inp, asm, grad, run, batch_idx>>

NextVal == Validate

SpecVal == InitVal /\ [][NextVal]_vars

Validated == pc = "validated"

\* C13: in validate the reward tensor used for the baseline MSE and the
\* advantage is the terminal-only correctness signal, 1 at the last timestep
\* iff the averaged prediction equals the label and 0 at every other timestep,
\* whatever reward mode and training mode are configured.
C13_ValidateTerminalReward ==
    Validated =>
        \A i \in 1..val.B : \A s \in 1..val.T :
            val.R[i][s] =
                (IF s = val.T /\ val.predicted[i] = val.y[i] THEN Unit ELSE 0)


\* the sum of f[r] over the rows r of the set S
RECURSIVE SumOver(_, _)
SumOver(S, f) ==
    IF S = {} THEN 0
    ELSE LET r == CHOOSE q \in S : TRUE IN f[r] + SumOver(S \ {r}, f)

\* the rollouts of image i: the rows of the repeated batch that are copies of it
RolloutsOf(i) == {r \in DOMAIN val.rows : val.rows[r].img = i}

\* C14: validate duplicates the batch of B images to M * B rollouts, and for
\* every image i the averaged class log-probabilities, baselines and log_pi
\* are the mean over exactly the M rollouts of image i, rows i, B + i, ...,
\* (M - 1) * B + i, and of no other image; the accuracy is computed from the B
\* averaged predictions against the B labels.  (A mean is held as the sum
\* over the M rollouts.)
C14_MonteCarloAverage ==
    Validated =>
        /\ Len(val.rows) = val.M * val.B
        /\ \A i \in 1..val.B :
            /\ RolloutsOf(i) = {(m - 1) * val.B + i : m \in 1..val.M}
            /\ \A c \in 1..num_classes :
                 val.log_probas[i][c] =
                    SumOver(RolloutsOf(i), [r \in DOMAIN val.rows |-> val.rows[r].cp[val.T][c]])
            /\ \A s \in 1..val.T :
                 /\ val.baselines[i][s] =
                      SumOver(RolloutsOf(i), [r \in DOMAIN val.rows |-> val.rows[r].b[s]])
                 /\ val.log_pi[i][s] =
                      SumOver(RolloutsOf(i), [r \in DOMAIN val.rows |-> val.rows[r].p[s]])
            /\ IsStrictMax(val.log_probas[i], val.predicted[i])
        /\ val.acc.den = val.B
        /\ val.acc.num = 100 * Cardinality({i \in 1..val.B : val.predicted[i] = val.y[i]})

\* a validated batch of two images with two samples each, where the two
\* samples of the first image differ from each other and one image is
\* classified correctly and the other is not
C14_Witness ==
    /\ Validated
    /\ val.B = 2
    /\ val.M = 2
    /\ val.T >= 2
    /\ val.rows[1].b # val.rows[3].b
    /\ val.rows[2].b # val.rows[3].b
    /\ val.predicted[1] = val.y[1]
    /\ val.predicted[2] # val.y[2]

-----------------------------------------------------------------------------
(* Training across epochs: trainer.py, Trainer.__init__, Trainer.train, the   *)
(* optimizer calls of Trainer.train_one_epoch, Trainer.save_checkpoint and   *)
(* Trainer.load_checkpoint, and the load of Trainer.test.  `run` holds the   *)
(* Trainer object of the running process and the two checkpoint files,       *)
(* which outlive the process.  The process can end at any point, also        *)
(* between the two file writes of save_checkpoint.  The model parameters     *)
(* and the optimizer state are named by <<p, n>>: the values reached by n    *)
(* optimizer steps from the initialisation of process p.                     *)

\* config.epochs ranges over 1..MaxEpochs
MaxEpochs == 3
\* the Trainer is constructed again (the program is started again) at most
\* MaxRestarts times
MaxRestarts == 1
\* config.train_patience and config.vae_patience range over 0..MaxPatience
MaxPatience == 2

\* validation accuracies an epoch can measure, in percent
Accs == {0, 40, 70}

\* a checkpoint file that does not exist
NoFile == [exists |-> FALSE]

\* history: the epoch at whose end the latest checkpoint was written, what
\* the trainer held at that moment, and the saved epochs of the training run
\* up to it; epoch -1 before the first save
NoSave == [epoch |-> -1, saved |-> <<>>]

\* save_recs, lines 636-645: the number of glimpses of a rollout it plots,
\* glimpses[0] to glimpses[5]
RecsGlimpses == 6

\* config.data_type: what the loaders yield, an image, or with 'mnist-clut' a
\* pair of the cluttered and the original image
DataTypes == {"mnist", "mnist-clut"}

\* the configurations of a training run
TrainCfgs ==
    { [ patch_size |-> DefaultCfg.patch_size, num_patches |-> DefaultCfg.num_patches,
        glimpse_scale |-> DefaultCfg.glimpse_scale,
        num_glimpses |-> n,
        core_net_type |-> DefaultCfg.core_net_type,
        training_mode |-> DefaultCfg.training_mode, reward |-> DefaultCfg.reward,
        epochs |-> e, train_patience |-> tp, vae_patience |-> vp,
        partial_vae |-> pv, num_train_batches |-> nb ] :
        n \in {DefaultCfg.num_glimpses, RecsGlimpses},
        e \in 1..MaxEpochs, tp \in 0..(MaxPatience - 1), vp \in 0..MaxPatience,
        pv \in BOOLEAN, nb \in 1..MaxTrainBatches }

\* the pVAE argument Trainer.__init__ gives RecurrentAttention(...): it passes
\* ten positional arguments and no pVAE, so the parameter takes its default
\* (model.py, line 14), whatever config.partial_vae is
ConstructorPVAE(c) == FALSE

\* the pVAE argument train_one_epoch gives self.model(x, l_t, h_t, ...): none,
\* so the parameter takes its default (model.py, line 36)
ForwardPVAE(c) == FALSE

\* model.py, lines 31-34: the reconstruction head the model is built with
ModelDecoder(pVAE) == IF pVAE THEN "PartialDecoder" ELSE "Decoder"

\* model.py, lines 48-51: whether forward hands the accumulated mask to the
\* decoder
DecoderGetsMasks(pVAE) == pVAE

\* loss_function of the head: PartialDecoder multiplies reconstruction and
\* target by the mask (modules.py, line 363), Decoder does not (line 296)
LossMasked(decoder) == decoder = "PartialDecoder"

\* Trainer.__init__ in process p, started with config.is_train = is_train
\* (lines 59-66: the Trainer gets the training and validation loaders, or
\* the test loader), config.resume = resume and config.best = load_best,
\* with the checkpoint files it finds.  accs is the
\* history of the validation accuracies train() has measured, init_best the
\* best_valid_acc it started its loop with, saved the history of the epochs
\* saved by the training run train() belongs to (its own and, after a
\* resume, those of the processes it continues): saved[k] is the validation
\* accuracy and the parameters of the epoch of index k - 1
NewTrainer(p, is_train, resume, load_best, ckpt, best) ==
    [ proc |-> p, is_train |-> is_train, resume |-> resume,
      load_best |-> load_best,
      start_epoch |-> 0, epoch |-> 0, batch |-> 0,
      best_valid_acc |-> 0, counter |-> 0, valid_acc |-> -1,
      model_state |-> <<p, 0>>, optim_state |-> <<p, 0>>,
      decoder |-> ModelDecoder(ConstructorPVAE(cfg)),
      masks_to_decoder |-> FALSE, vae_masked |-> FALSE,
      sched |-> 0, ops |-> <<>>, trace |-> <<>>, stopped |-> FALSE,
      accs |-> <<>>, init_best |-> 0, saved |-> <<>>,
      ckpt |-> ckpt, best |-> best, last_saved |-> NoSave ]

\* a reconstruction+KL gate that opens one epoch late
BatchOpsLate(epoch, vae_patience) ==
    <<"zero_grad">> \o
    (IF vae_patience < epoch THEN <<"vae_backward">> ELSE <<>>) \o
    <<"backward", "step">>

\* lines 227-350: the calls one training batch of epoch `epoch` makes on the
\* gradients and the optimizer, in order
BatchOps(epoch, vae_patience) ==
    <<"zero_grad">> \o
    (IF vae_patience <= epoch THEN <<"vae_backward">> ELSE <<>>) \o
    <<"backward", "step">>

\* the parameters, or the optimizer state, after one more optimizer.step()
Step(state) == <<state[1], state[2] + 1>>

\* a checkpoint that records the index of the epoch just finished
CheckpointStateSameEpoch(r) ==
    [ exists |-> TRUE, epoch |-> r.epoch, model_state |-> r.model_state,
      optim_state |-> r.optim_state, best_valid_acc |-> r.best_valid_acc ]

\* lines 200-205: the state train() hands to save_checkpoint
CheckpointState(r) ==
    [ exists |-> TRUE, epoch |-> r.epoch + 1, model_state |-> r.model_state,
      optim_state |-> r.optim_state, best_valid_acc |-> r.best_valid_acc ]

\* save_checkpoint, line 576: torch.save(state, ckpt_path) writes the latest
\* file
TorchSave(r, state) == [r EXCEPT !.ckpt = state]

\* save_checkpoint, lines 577-579, when is_best: shutil.copyfile copies the
\* latest file to the best file
CopyFile(r) == [r EXCEPT !.best = r.ckpt]

\* lines 596-599: the file load_checkpoint(best) reads
CheckpointFile(r, best) == IF best THEN r.best ELSE r.ckpt

\* load_checkpoint(best), lines 596-607
LoadCheckpoint(r, best) ==
    [r EXCEPT !.start_epoch = CheckpointFile(r, best).epoch,
              !.best_valid_acc = CheckpointFile(r, best).best_valid_acc,
              !.model_state = CheckpointFile(r, best).model_state,
              !.optim_state = CheckpointFile(r, best).optim_state]

\* the event `name` of epoch `epoch`, appended to the trace of the process
Logged(r, name) == [r EXCEPT !.trace = Append(@, <<name, r.epoch>>)]

InitTrain ==
    /\ pc = "init"
    /\ cfg \in TrainCfgs
    /\ \E is_train \in BOOLEAN, resume \in BOOLEAN, load_best \in BOOLEAN :
          run = NewTrainer(0, is_train, resume, load_best, NoFile, NoFile)
    /\ x = [B |-> 2, H |-> 3, W |-> 3]
    /\ batch_idx = 0
    /\ t = 0
    /\ h_t = <<>>
    /\ l_t = <<0, 0>>
    /\ l_raw = l_t
    /\ masks = NoMask
    /\ masks_arg = NoMask
    /\ ret = NoRet
    /\ calls = <<>>
    /\ buf = EmptyBuf
    /\ err = ""
    /\ inp = NoInp
    /\ asm = NoAsm
    /\ grad = NoGrad
    /\ val = NoVal

\* what no action of the training run changes
TrainFrame == UNCHANGED <<cfg, x, t, h_t, l_t, l_raw, masks, masks_arg, ret,
                          calls, buf, inp, asm, grad, val, batch_idx>>

\* train(), lines 152-162: the checkpoint is loaded if config.resume is set
\* (torch.load raises if there is no file); a Trainer built for testing has
\* no num_train and line 158 raises AttributeError; otherwise the epoch loop
\* starts at start_epoch
TrainStart ==
    /\ pc = "init"
    /\ IF run.resume /\ ~run.ckpt.exists
       THEN /\ pc' = "error"
            /\ err' = "load"
            /\ run' = run
       ELSE IF ~run.is_train
       THEN /\ pc' = "error"
            /\ err' = "num_train"
            /\ run' = IF run.resume THEN LoadCheckpoint(run, FALSE) ELSE run
       ELSE /\ pc' = "loop"
            /\ err' = err
            /\ run' = LET r == IF run.resume THEN LoadCheckpoint(run, FALSE)
                                    ELSE run
                      IN  [r EXCEPT !.epoch = r.start_epoch,
                                    !.init_best = r.best_valid_acc,
                                    !.saved = IF run.resume
                                              THEN run.last_saved.saved
                                              ELSE <<>>]
    /\ TrainFrame

\* line 162, 171: the loop enters epoch run.epoch and calls train_one_epoch
EpochBegin ==
    /\ pc = "loop"
    /\ run.epoch < cfg.epochs
    /\ pc' = "batches"
    /\ run' = [run EXCEPT !.batch = 0, !.valid_acc = -1]
    /\ err' = err
    /\ TrainFrame

\* line 162: range(start_epoch, epochs) is exhausted and train() returns
TrainReturn ==
    /\ pc = "loop"
    /\ run.epoch >= cfg.epochs
    /\ pc' = "returned"
    /\ run' = run
    /\ err' = err
    /\ TrainFrame

\* train_one_epoch, lines 226-350: one batch; after the last batch of the
\* loader train_one_epoch returns
TrainBatch ==
    /\ pc = "batches"
    /\ LET r == [run EXCEPT !.ops = BatchOps(run.epoch, cfg.vae_patience),
                            !.masks_to_decoder = DecoderGetsMasks(ForwardPVAE(cfg)),
                            !.vae_masked = LossMasked(run.decoder),
                            !.model_state = Step(@),
                            !.optim_state = Step(@),
                            !.batch = @ + 1]
       IN  IF r.batch < cfg.num_train_batches
           THEN /\ pc' = "batches"
                /\ run' = r
           ELSE /\ pc' = "validate"
                /\ run' = Logged(r, "train_one_epoch")
    /\ err' = err
    /\ TrainFrame

\* line 174: validate(epoch) measures the validation accuracy
EpochValidate ==
    /\ pc = "validate"
    /\ pc' = "epoch_end"
    /\ \E acc \in Accs :
          run' = Logged([run EXCEPT !.valid_acc = acc, !.accs = Append(@, acc)],
                        "validate")
    /\ err' = err
    /\ TrainFrame

\* an end of epoch that returns as soon as the counter reaches train_patience
EpochEndAtPatience ==
    /\ pc = "epoch_end"
    /\ LET is_best == run.valid_acc > run.best_valid_acc
           counter == IF is_best THEN 0 ELSE run.counter + 1
           r1 == Logged([run EXCEPT !.sched = @ + 1, !.counter = counter],
                        "scheduler_step")
       IN  IF counter >= cfg.train_patience
           THEN /\ pc' = "returned"
                /\ run' = [r1 EXCEPT !.stopped = TRUE]
           ELSE /\ pc' = IF is_best THEN "copy_best" ELSE "loop"
                /\ run' =
                    LET r2 == [r1 EXCEPT !.best_valid_acc = Max(run.valid_acc, @),
                                         !.saved = Append(@,
                                            [ acc |-> run.valid_acc,
                                              model_state |-> run.model_state ])]
                        r3 == TorchSave(r2, CheckpointState(r2))
                        r4 == Logged(r3, "save")
                    IN  [r4 EXCEPT !.epoch = IF is_best THEN @ ELSE @ + 1,
                                   !.last_saved = [ epoch |-> r2.epoch,
                                                    model_state |-> r2.model_state,
                                                    optim_state |-> r2.optim_state,
                                                    best_valid_acc |-> r2.best_valid_acc,
                                                    saved |-> r2.saved ]]
    /\ err' = err
    /\ TrainFrame

\* lines 177-207 and save_checkpoint up to line 577: the scheduler step, the
\* improvement test, the patience counter with its early return, and the
\* write of the latest checkpoint of the epoch; if the epoch improved,
\* save_checkpoint goes on to copy the file, otherwise the loop goes on
EpochEnd ==
    /\ pc = "epoch_end"
    /\ LET is_best == run.valid_acc > run.best_valid_acc
           counter == IF is_best THEN 0 ELSE run.counter + 1
           r1 == Logged([run EXCEPT !.sched = @ + 1, !.counter = counter],
                        "scheduler_step")
       IN  IF counter > cfg.train_patience
           THEN /\ pc' = "returned"
                /\ run' = [r1 EXCEPT !.stopped = TRUE]
           ELSE /\ pc' = IF is_best THEN "copy_best" ELSE "loop"
                /\ run' =
                    LET r2 == [r1 EXCEPT !.best_valid_acc = Max(run.valid_acc, @),
                                         !.saved = Append(@,
                                            [ acc |-> run.valid_acc,
                                              model_state |-> run.model_state ])]
                        r3 == TorchSave(r2, CheckpointState(r2))
                        r4 == Logged(r3, "save")
                    IN  [r4 EXCEPT !.epoch = IF is_best THEN @ ELSE @ + 1,
                                   !.last_saved = [ epoch |-> r2.epoch,
                                                    model_state |-> r2.model_state,
                                                    optim_state |-> r2.optim_state,
                                                    best_valid_acc |-> r2.best_valid_acc,
                                                    saved |-> r2.saved ]]
    /\ err' = err
    /\ TrainFrame

\* save_checkpoint, lines 577-579, after an epoch that improved: the latest
\* file is copied to the best file, save_checkpoint returns and the loop goes
\* on to the next epoch
SaveCheckpointCopy ==
    /\ pc = "copy_best"
    /\ pc' = "loop"
    /\ run' = [Logged(CopyFile(run), "save_best") EXCEPT !.epoch = @ + 1]
    /\ err' = err
    /\ TrainFrame

\* test() after its load_checkpoint, lines 489-566: the exception it ends
\* in, "" if it returns.  A Trainer built for training has no test_loader
\* (lines 59-66) and line 493 raises AttributeError; with data_type
\* 'mnist-clut' line 537 subtracts x_orig of shape (B, T, 1, 28, 28) from the
\* reconstructions of shape (B, T, 784) and raises RuntimeError; save_recs
\* (line 552) plots glimpses[0] to glimpses[5] of a rollout and raises
\* IndexError for fewer than six glimpses, and its savefig (line 647) raises
\* FileNotFoundError if there is no directory ./report
TestErr(r, c, data_type, report) ==
    IF r.is_train THEN "test_loader"
    ELSE IF data_type = "mnist-clut" THEN "x_orig"
    ELSE IF c.num_glimpses < RecsGlimpses THEN "save_recs"
    ELSE IF ~report THEN "report"
    ELSE ""

\* the ways test() can end after its load_checkpoint, over the kinds of test
\* set and with or without a directory ./report
TestOutcomes(r, c) ==
    {TestErr(r, c, data_type, report) : data_type \in DataTypes,
                                        report \in BOOLEAN}

\* test(), lines 479-566, called on a new Trainer or after train() has
\* returned, on a test set of either kind, with or without a directory
\* ./report: load_checkpoint(best=self.best) (torch.load raises if there is
\* no such file), then the evaluation of the test set, which changes neither
\* the parameters nor a checkpoint file and can raise
Test ==
    /\ pc \in {"init", "returned"}
    /\ IF ~CheckpointFile(run, run.load_best).exists
       THEN /\ pc' = "error"
            /\ err' = "load"
            /\ run' = run
       ELSE \E e \in TestOutcomes(run, cfg) :
              LET r == LoadCheckpoint(run, run.load_best)
              IN  /\ pc' = IF e = "" THEN "tested" ELSE "error"
                  /\ err' = IF e = "" THEN err ELSE e
                  /\ run' = IF e = "" THEN Logged(r, "test") ELSE r
    /\ TrainFrame

\* the process ends, at any point of train() or test(), also between the two
\* writes of save_checkpoint, and the program is started again: a new Trainer
\* is constructed, the checkpoint directory is as the last process left it
Restart ==
    /\ pc \in {"loop", "batches", "validate", "epoch_end", "copy_best",
                "returned", "tested", "error"}
    /\ run.proc < MaxRestarts
    /\ pc' = "init"
    /\ \E is_train \in BOOLEAN, resume \in BOOLEAN, load_best \in BOOLEAN :
          run' = [NewTrainer(run.proc + 1, is_train, resume, load_best,
                             run.ckpt, run.best)
                    EXCEPT !.last_saved = run.last_saved]
    /\ err' = ""
    /\ TrainFrame

NextTrain ==
    \/ TrainStart
    \/ EpochBegin
    \/ TrainReturn
    \/ TrainBatch
    \/ EpochValidate
    \/ EpochEnd
    \/ SaveCheckpointCopy
    \/ Test
    \/ Restart

SpecTrain == InitTrain /\ [][NextTrain]_vars


\* a training batch of epoch run.epoch has just been processed
BatchDone == pc \in {"batches", "validate"} /\ run.batch >= 1

\* the positions of the call `name` among the calls of the last batch
OpsAt(name) == {k \in DOMAIN run.ops : run.ops[k] = name}

\* C15: in every training batch the reconstruction+KL loss is backpropagated
\* if and only if the epoch index is at least vae_patience; when it is, it is
\* backpropagated on its own and before the combined loss; and in every batch
\* the gradients are zeroed first and the optimizer steps exactly once, after
\* the combined loss is backpropagated.
C15_VaeGate ==
    BatchDone =>
        /\ (OpsAt("vae_backward") # {}) <=> (run.epoch >= cfg.vae_patience)
        /\ Cardinality(OpsAt("vae_backward")) <= 1
        /\ \A v \in OpsAt("vae_backward") : \A b \in OpsAt("backward") : v < b
        /\ OpsAt("zero_grad") = {1}
        /\ Cardinality(OpsAt("backward")) = 1
        /\ Cardinality(OpsAt("step")) = 1
        /\ OpsAt("step") = {Len(run.ops)}
        /\ \A b \in OpsAt("backward") : \A s \in OpsAt("step") : b < s

\* a batch of the first epoch in which the reconstruction+KL loss is enabled,
\* after at least one epoch in which it was not
C15_Witness ==
    /\ BatchDone
    /\ cfg.vae_patience >= 1
    /\ run.epoch = cfg.vae_patience
    /\ run.ops = <<"zero_grad", "vae_backward", "backward", "step">>


\* train() has loaded the latest checkpoint and has not finished an epoch
\* since
Resumed ==
    /\ pc \in {"loop", "batches", "validate"}
    /\ run.resume
    /\ run.trace = <<>>

\* C16: saving a checkpoint at the end of epoch e and then loading it
\* reproduces the saved model parameters and optimizer state, sets
\* best_valid_acc to the recorded value, and makes train() resume so that the
\* next epoch run is e + 1: no epoch is repeated and none is skipped.
C16_CheckpointRoundTrip ==
    Resumed =>
        /\ run.start_epoch = run.last_saved.epoch + 1
        /\ run.epoch = run.last_saved.epoch + 1
        /\ run.best_valid_acc = run.last_saved.best_valid_acc
        /\ (pc = "loop" \/ run.batch = 0) =>
              /\ run.model_state = run.last_saved.model_state
              /\ run.optim_state = run.last_saved.optim_state

\* a new process has resumed from a checkpoint written by an earlier one
\* after some optimizer steps and an improved accuracy, and is about to run
\* the next epoch
C16_Witness ==
    /\ Resumed
    /\ pc = "batches"
    /\ run.batch = 0
    /\ run.proc >= 1
    /\ run.model_state[1] = 0
    /\ run.model_state[2] >= 2
    /\ run.best_valid_acc > 0
    /\ run.epoch >= 2


\* C17: when the preset sets partial_vae the trainer builds the model with
\* the masked reconstruction head and every training step passes it the
\* accumulated visited-pixel mask, so that the reconstruction loss is
\* restricted to visited pixels; when the flag is False the unmasked head and
\* loss are used.
C17_PartialVae ==
    BatchDone =>
        /\ run.decoder = (IF cfg.partial_vae THEN "PartialDecoder" ELSE "Decoder")
        /\ run.masks_to_decoder = cfg.partial_vae
        /\ run.vae_masked = cfg.partial_vae

-----------------------------------------------------------------------------
(* The running mask over an episode *)

\* forward calls 1..t of the episode have returned
Stepped == pc \in {"glimpse", "rolled"} /\ t >= 1

\* the single-step mask of forward call s of the episode at pixel p: h_t holds
\* the locations the calls were given, in order
StepMaskOf(s, p) ==
    StepMaskAt(x.H, x.W, h_t[s], cfg.patch_size, cfg.num_patches,
               cfg.glimpse_scale, p)

\* C18: within one training episode the running mask is a monotonic union
\* accumulated in timestep order: the mask after step t is the pointwise OR of
\* the single-step masks of steps 0..t, and a pixel that is 1 after some step
\* is 1 after every later step of the episode.
C18_MaskMonotoneUnion ==
    Stepped =>
        /\ \A p \in 1..(x.H * x.W) :
              masks[p] = (IF \E s \in 1..t : StepMaskOf(s, p) = 1 THEN 1 ELSE 0)
        /\ \A s \in 1..t : \A u \in s..t : \A p \in 1..(x.H * x.W) :
              buf.masks_glimpse[s][p] = 1 => buf.masks_glimpse[u][p] = 1
        /\ buf.masks_glimpse[t] = masks

\* the second or a later step of an episode has visited a pixel that was
\* already visited and a pixel that was not
C18_Witness ==
    /\ Stepped
    /\ t >= 2
    /\ \E p \in 1..(x.H * x.W) : buf.masks_glimpse[t - 1][p] = 1 /\ ret.step[p] = 1
    /\ \E p \in 1..(x.H * x.W) : buf.masks_glimpse[t - 1][p] = 0 /\ ret.step[p] = 1
    /\ \E p \in 1..(x.H * x.W) : masks[p] = 0


\* an episode is at its INIT state: reset() has run and no forward call yet
AtInit == pc = "glimpse" /\ t = 0

\* C19: every episode starts from a fresh INIT state: the hidden state is all
\* zeros, the running mask is cleared and every trajectory buffer is empty,
\* so that nothing an earlier batch left behind (hidden state, mask, mask
\* tensor mutated in place, buffers, calls, retina result) is still there
\* when the batch starts.
C19_FreshInit ==
    AtInit =>
        /\ h_t = <<>>
        /\ masks = NoMask
        /\ masks_arg = NoMask
        /\ buf = EmptyBuf
        /\ calls = <<>>
        /\ ret = NoRet
        /\ err = ""
        /\ InRange(l_t)

\* the INIT state of a batch that follows an earlier batch of the epoch
C19_Witness ==
    /\ AtInit
    /\ batch_idx >= 1
    /\ cfg.num_glimpses >= 2


\* train() has trained and validated at least one epoch and is between
\* epochs, or has returned
EpochOver == pc \in {"loop", "returned"} /\ run.accs # <<>>

\* the index of the epoch train() trained and validated last
LastEpoch == run.start_epoch + Len(run.accs) - 1

\* the best validation accuracy of the epochs before the n-th epoch of this
\* train(): the value train() started with and the accuracies measured since
RECURSIVE BestBefore(_)
BestBefore(n) ==
    IF n = 1 THEN run.init_best ELSE Max(run.accs[n - 1], BestBefore(n - 1))

\* the file f was written at the end of the epoch trained and validated last
WrittenLastEpoch(f) ==
    /\ f.exists
    /\ f.epoch = LastEpoch + 1
    /\ f.model_state = run.model_state

\* C20: train() saves a checkpoint of the model after each epoch that was
\* trained and validated, and creates the separate best checkpoint in that
\* same epoch if and only if the epoch's validation accuracy strictly exceeds
\* the best validation accuracy of all earlier epochs.
C20_CheckpointEachEpoch ==
    EpochOver =>
        /\ WrittenLastEpoch(run.ckpt)
        /\ WrittenLastEpoch(run.best) <=>
              run.accs[Len(run.accs)] > BestBefore(Len(run.accs))



\* train() is between two epochs of its loop, or has returned
BetweenEpochs == pc \in {"loop", "returned"}

\* the number of consecutive epochs of this train(), the last of them its
\* n-th epoch, whose validation accuracy did not strictly exceed the best so
\* far
RECURSIVE Streak(_)
Streak(n) ==
    IF n = 0 THEN 0
    ELSE IF run.accs[n] > BestBefore(n) THEN 0 ELSE Streak(n - 1) + 1

\* the event is one of the three calls of an epoch
IsEpochCall(e) == e[1] \in {"train_one_epoch", "validate", "scheduler_step"}

\* the calls of the epochs of this train(), in the order they were made
EpochCalls == SelectSeq(run.trace, IsEpochCall)

\* C21: train() returns early exactly at the first epoch at which the number
\* of consecutive epochs whose validation accuracy did not strictly exceed
\* the best so far is greater than train_patience, an improving epoch
\* resetting the count to 0; otherwise it runs every epoch from start_epoch
\* to epochs-1; and each epoch performs train_one_epoch, then validate, then
\* one scheduler step, in that order.
C21_PatienceStop ==
    BetweenEpochs =>
        LET n == Len(run.accs)
        IN  /\ run.stopped <=> Streak(n) > cfg.train_patience
            /\ run.stopped => pc = "returned"
            /\ \A k \in 0..(n - 1) : Streak(k) <= cfg.train_patience
            /\ run.counter = Streak(n)
            /\ (pc = "returned" /\ ~run.stopped) =>
                  n = Max(0, cfg.epochs - run.start_epoch)
            /\ Len(EpochCalls) = 3 * n
            /\ \A k \in 1..n :
                  LET epoch == run.start_epoch + k - 1
                  IN  /\ EpochCalls[3 * k - 2] = <<"train_one_epoch", epoch>>
                      /\ EpochCalls[3 * k - 1] = <<"validate", epoch>>
                      /\ EpochCalls[3 * k] = <<"scheduler_step", epoch>>

\* train() has returned early after an improving epoch reset the count and
\* more than train_patience epochs without improvement followed
C21_Witness ==
    /\ pc = "returned"
    /\ run.stopped
    /\ cfg.train_patience >= 1
    /\ \E k \in 1..Len(run.accs) : run.accs[k] > BestBefore(k)



\* the snapshots of the episode are in the buffer: some forward call has
\* returned, and the episode goes on, is over, or ended in an exception
Snapshotted == pc \in {"glimpse", "rolled", "error"} /\ t >= 1

\* the step is a forward call of the episode: its retina call has run
RetinaCalled == Len(calls') = Len(calls) + 1

\* the accumulated mask through the step of the call at pixel p: the
\* single-step mask of the first step, and from then on 1 where the
\* accumulated mask through the step before or the single-step mask of the
\* call is 1
MaskThrough(p) ==
    IF t = 0 THEN ret'.step[p] ELSE Max(buf.masks_glimpse[t][p], ret'.step[p])

\* C22: the snapshot stored in the trajectory buffer for a step is the
\* accumulated mask through that step, and no later retina call alters a
\* snapshot already stored, although each later call adds its single-step
\* mask in place into the tensor it is given (the one the previous call
\* returned) before clamping into a new tensor.
C22_SnapshotKept ==
    [][RetinaCalled =>
          /\ Len(buf.masks_glimpse) = t
          /\ Len(buf.masks_glimpse') >= t
          /\ \A s \in 1..t : buf.masks_glimpse'[s] = buf.masks_glimpse[s]
          /\ (pc' # "error" \/ err' = "transpose") =>
                /\ Len(buf.masks_glimpse') = t + 1
                /\ \A p \in 1..(x.H * x.W) :
                      buf.masks_glimpse'[t + 1][p] = MaskThrough(p)
          /\ (ret'.ok /\ t >= 1) =>
                \A p \in 1..(x.H * x.W) :
                    masks_arg'[p] = buf.masks_glimpse[t][p] + ret'.step[p]
      ]_vars

\* two later calls have followed the first snapshot, and the last of them has
\* added in place to the tensor it was given, which now holds a 2 where the
\* snapshot of that step holds a 1
C22_Witness ==
    /\ Snapshotted
    /\ t >= 3
    /\ \E p \in 1..(x.H * x.W) :
          /\ masks_arg[p] = 2
          /\ buf.masks_glimpse[t - 1][p] = 1
          /\ buf.masks_glimpse[1][p] = 0



\* train() has loaded what it resumes from and is in its loop, or has
\* returned
InTrain == pc \in {"loop", "batches", "validate", "epoch_end", "copy_best",
                   "returned"}

\* train() is not inside save_checkpoint
NotSaving == InTrain /\ pc # "copy_best"

\* the number of epochs this train() has saved
Saved == run.epoch - run.start_epoch

\* the saved epochs of the training run, by index + 1, whose validation
\* accuracy is the current best_valid_acc
Achieved == {k \in 1..Len(run.saved) : run.saved[k].acc = run.best_valid_acc}

\* the earliest of them
EarliestBest == CHOOSE k \in Achieved : \A j \in Achieved : k <= j

\* best_valid_acc and the checkpoint files agree with the validation
\* accuracies measured: the last of them may not have been compared yet
BestTracked ==
    /\ run.best_valid_acc = BestBefore(Saved + 1)
    /\ \A k \in 1..Len(run.accs) :
          \/ run.accs[k] <= run.best_valid_acc
          \/ k = Len(run.accs) /\ pc = "epoch_end"
    /\ run.ckpt.exists => run.ckpt.best_valid_acc = run.best_valid_acc
    /\ run.best.exists =>
          /\ run.best.best_valid_acc = run.best_valid_acc
          /\ Achieved # {}
          /\ run.best.epoch = EarliestBest
          /\ run.best.model_state = run.saved[EarliestBest].model_state

\* C23: in train(), also after a resume, best_valid_acc never decreases and,
\* after each saved epoch, equals the maximum of the value train() started
\* with and the validation accuracies seen so far; whenever a best checkpoint
\* file exists it holds the parameters and the best_valid_acc of the
\* earliest epoch that achieved that maximum; and the latest checkpoint
\* records the current best_valid_acc.  The files are looked at when train()
\* is not in the middle of save_checkpoint.
C23_BestTracked ==
    [][/\ (InTrain /\ InTrain') => run'.best_valid_acc >= run.best_valid_acc
       /\ NotSaving' => BestTracked'
      ]_vars

=============================================================================
